---- MODULE Spec2Model ----
(***************************************************************************)
(* A model of pythonProject1/server.py: the admission semaphore            *)
(* (BlackjackServer.manage_connection), the session (handle_client) and    *)
(* the round state machine (play_game_round), over the binary codec        *)
(* (BlackjackProtocol) and the card engine (BlackjackEngine).              *)
(* pythonProject1/client.py's BlackjackClient is modelled as the peer of   *)
(* one session (SpecClient).                                               *)
(*                                                                         *)
(* Messages are sequences of bytes (0..255), big-endian as struct packs    *)
(* them.  A card is the pair <<rank, suit>>, a hand or a deck a sequence   *)
(* of cards; deck.pop() takes the LAST element of the list.                *)
(***************************************************************************)
EXTENDS Integers, Sequences, FiniteSets, TLC

(***************************************************************************)
(* Bounds of the model.                                                    *)
(***************************************************************************)
\* connection threads that can be alive at the same time
NumConns == 2
\* largest rounds value a modelled Request declares
MaxRounds == 2
\* cards of PoolCards that random.shuffle permutes on top of the deck
PoolSize == 5

\* longest hand calculate_hand_sum is called with on its own
MaxHandLen == 4

\* longest name that pack_request is called with before it is filled up
MaxNameLen == 2

Conns == 1..NumConns

(***************************************************************************)
(* Global constants, server.py lines 8-17.                                 *)
(***************************************************************************)
\* 0xabcddcba as struct's '!I' lays it out: ab cd dc ba
MAGIC_COOKIE == <<171, 205, 220, 186>>
MESSAGE_TYPE_OFFER == 2
MESSAGE_TYPE_REQUEST == 3
MESSAGE_TYPE_PAYLOAD == 4
RESULT_IN_PROGRESS == 0
RESULT_TIE == 1
RESULT_LOSS == 2
RESULT_WIN == 3

\* sizes struct computes for '!I B B 32s', '!I B 5s' and '!I B B 2s B'
REQUEST_SIZE == 38
CLIENT_PAYLOAD_SIZE == 10
NAME_SIZE == 32

\* the clamp of BlackjackServer.__init__
MIN_CONN_LIMIT == 1
MAX_CONN_LIMIT == 20

\* range(1, 14) and range(4) of get_shuffled_deck
NUM_RANKS == 13
NUM_SUITS == 4

\* the dealer draws below this total, the player is asked below TARGET
DEALER_STAND == 17
TARGET == 21

(***************************************************************************)
(* Helpers on sequences.                                                   *)
(***************************************************************************)
Min(a, b) == IF a < b THEN a ELSE b
Max(a, b) == IF a > b THEN a ELSE b

Last(s) == s[Len(s)]
Front(s) == SubSeq(s, 1, Len(s) - 1)
Range(s) == {s[i] : i \in 1..Len(s)}
Zeros(n) == [i \in 1..n |-> 0]

\* bytes.ljust(n, b'\x00')
Ljust(s, n) == IF Len(s) >= n THEN s ELSE s \o Zeros(n - Len(s))

\* the bytes of the ASCII strings the code compares with
STAND == <<83, 116, 97, 110, 100>>
HITTT == <<72, 105, 116, 116, 116>>

(***************************************************************************)
(* BlackjackProtocol.                                                      *)
(***************************************************************************)
\* pack_request(team_name, rounds); team_name is given as its utf-8 bytes
pack_request(team_name, rounds) ==
    LET name_bytes == IF Len(team_name) > NAME_SIZE
                      THEN SubSeq(team_name, 1, NAME_SIZE) ELSE team_name
    IN  MAGIC_COOKIE \o <<MESSAGE_TYPE_REQUEST, rounds>> \o Ljust(name_bytes, NAME_SIZE)

\* pack_client_payload(decision); decision is given as its utf-8 bytes
pack_client_payload(decision) ==
    MAGIC_COOKIE \o <<MESSAGE_TYPE_PAYLOAD>> \o Ljust(decision, 5)

\* pack_offer(server_name, tcp_port); '!I B H 32s' lays the port out in two bytes,
\* high byte first
pack_offer(server_name, port) ==
    LET name_bytes == IF Len(server_name) > NAME_SIZE
                      THEN SubSeq(server_name, 1, NAME_SIZE) ELSE server_name
    IN  MAGIC_COOKIE \o <<MESSAGE_TYPE_OFFER>> \o <<port \div 256, port % 256>>
                     \o Ljust(name_bytes, NAME_SIZE)

\* pack_server_payload(result, rank, suit): str(rank).zfill(2) is two ASCII digits
pack_server_payload(result, rank, suit) ==
    MAGIC_COOKIE \o <<MESSAGE_TYPE_PAYLOAD, result>>
                 \o <<48 + (rank \div 10), 48 + (rank % 10)>> \o <<suit>>

\* struct.unpack raises struct.error unless the buffer has exactly the format's size
StructError(data, size) == Len(data) # size

\* unpack_request(data): None is <<>>, else (magic, type, rounds, name_bytes).
\* It raises when the buffer is longer than 38 bytes.
unpack_request_raises(data) ==
    Len(data) >= REQUEST_SIZE /\ StructError(data, REQUEST_SIZE)

unpack_request(data) ==
    IF Len(data) < REQUEST_SIZE THEN <<>>
    ELSE <<SubSeq(data, 1, 4), data[5], data[6], SubSeq(data, 7, REQUEST_SIZE)>>

\* str.encode('utf-8') of a string given as its code points, up to U+FFFF
RECURSIVE EncodeUtf8(_)
EncodeUtf8(str) ==
    IF str = <<>> THEN <<>>
    ELSE LET cp == str[1]
             bytes == IF cp < 128 THEN <<cp>>
                      ELSE IF cp < 2048 THEN <<192 + (cp \div 64), 128 + (cp % 64)>>
                      ELSE <<224 + (cp \div 4096), 128 + ((cp \div 64) % 64), 128 + (cp % 64)>>
         IN  bytes \o EncodeUtf8(Tail(str))

\* the second bytes a three-byte sequence with this first byte can have
SecondBytes(lead) ==
    IF lead = 224 THEN 160..191 ELSE IF lead = 237 THEN 128..159 ELSE 128..191

\* bytes.decode('utf-8', errors='replace'), giving the code points: sequences of
\* one, two and three bytes are decoded, and each maximal ill-formed part becomes
\* U+FFFD (a first byte of a four-byte sequence counts as ill-formed here)
RECURSIVE DecodeReplace(_)
DecodeReplace(bs) ==
    IF bs = <<>> THEN <<>>
    ELSE IF bs[1] < 128 THEN <<bs[1]>> \o DecodeReplace(Tail(bs))
    ELSE IF bs[1] \in 194..223 THEN
        IF Len(bs) >= 2 /\ bs[2] \in 128..191
        THEN <<(bs[1] - 192) * 64 + (bs[2] - 128)>> \o DecodeReplace(SubSeq(bs, 3, Len(bs)))
        ELSE <<65533>> \o DecodeReplace(Tail(bs))
    ELSE IF bs[1] \in 224..239 THEN
        IF Len(bs) >= 2 /\ bs[2] \in SecondBytes(bs[1])
        THEN IF Len(bs) >= 3 /\ bs[3] \in 128..191
             THEN <<(bs[1] - 224) * 4096 + (bs[2] - 128) * 64 + (bs[3] - 128)>>
                     \o DecodeReplace(SubSeq(bs, 4, Len(bs)))
             ELSE <<65533>> \o DecodeReplace(SubSeq(bs, 3, Len(bs)))
        ELSE <<65533>> \o DecodeReplace(Tail(bs))
    ELSE <<65533>> \o DecodeReplace(Tail(bs))

\* str.strip(chars): characters of chars removed from both ends
RECURSIVE LStrip(_, _)
LStrip(s, chars) ==
    IF s # <<>> /\ s[1] \in chars THEN LStrip(Tail(s), chars) ELSE s
RECURSIVE RStrip(_, _)
RStrip(s, chars) ==
    IF s # <<>> /\ Last(s) \in chars THEN RStrip(Front(s), chars) ELSE s
Strip(s, chars) == RStrip(LStrip(s, chars), chars)

\* the characters str.strip() removes among those a decoded byte can be
WHITESPACE == {9, 10, 11, 12, 13, 28, 29, 30, 31, 32}

\* line 145, and test_06: the name of a Request's name field
DecodeName(name_bytes) == Strip(DecodeReplace(name_bytes), {0})

\* unpack_client_payload(data): None is <<>>, else (magic, msg_type, decision)
unpack_client_payload_raises(data) ==
    Len(data) >= CLIENT_PAYLOAD_SIZE /\ StructError(data, CLIENT_PAYLOAD_SIZE)

unpack_client_payload(data) ==
    IF Len(data) < CLIENT_PAYLOAD_SIZE THEN <<>>
    ELSE <<SubSeq(data, 1, 4), data[5],
           Strip(Strip(DecodeReplace(SubSeq(data, 6, CLIENT_PAYLOAD_SIZE)), {0}),
                 WHITESPACE)>>

\* the fields of a 9-byte server payload, as the client reads them
PayloadResult(m) == m[6]
PayloadRank(m) == <<m[7], m[8]>>
PayloadSuit(m) == m[9]
\* the rank field "00"
NO_RANK == <<48, 48>>

(***************************************************************************)
(* BlackjackEngine.                                                        *)
(***************************************************************************)
\* the list comprehension of get_shuffled_deck, before random.shuffle
UnshuffledDeck ==
    [i \in 1..(NUM_RANKS * NUM_SUITS) |->
        <<((i - 1) \div NUM_SUITS) + 1, (i - 1) % NUM_SUITS>>]

\* s without the elements of the set drop, order kept
RECURSIVE Without(_, _)
Without(s, drop) ==
    IF s = <<>> THEN <<>>
    ELSE IF s[1] \in drop THEN Without(Tail(s), drop)
         ELSE <<s[1]>> \o Without(Tail(s), drop)

Reverse(s) == [i \in 1..Len(s) |-> s[Len(s) + 1 - i]]

\* One outcome of random.shuffle: the cards of top lie on top of the list, top[1]
\* popped first, the other cards below them in the comprehension's order.
ShuffledDeck(top) == Without(UnshuffledDeck, Range(top)) \o Reverse(top)

\* mutant: an Ace that counts 1
CardValueAceLow(rank) ==
    IF rank = 1 THEN 1 ELSE IF rank >= 10 THEN 10 ELSE rank

\* mutant: cards that count nothing
CardValueNothing(rank) == 0

\* lines 76-81: what one card adds to the total
CardValue(rank) ==
    IF rank = 1 THEN 11 ELSE IF rank >= 10 THEN 10 ELSE rank

RECURSIVE calculate_hand_sum(_)
calculate_hand_sum(hand) ==
    IF hand = <<>> THEN 0
    ELSE CardValue(hand[1][1]) + calculate_hand_sum(Tail(hand))

(***************************************************************************)
(* What the environment can deliver.                                       *)
(***************************************************************************)
\* a local variable that has not been assigned yet (no recv has returned)
Unset == <<-1>>

\* 0xDEADBEEF, the cookie test_09_invalid_magic_cookie sends
BAD_COOKIE == <<222, 173, 190, 239>>

TEAM_NAME == <<88>>

SetBytes(data, from, bytes) ==
    [i \in 1..Len(data) |->
        IF i >= from /\ i < from + Len(bytes) THEN bytes[i - from + 1] ELSE data[i]]

ValidRequests == {pack_request(TEAM_NAME, r) : r \in 0..MaxRounds}
BadCookieRequest == SetBytes(pack_request(TEAM_NAME, 1), 1, BAD_COOKIE)
BadTypeRequest == SetBytes(pack_request(TEAM_NAME, 1), 5, <<MESSAGE_TYPE_OFFER>>)
ShortRequest == SubSeq(pack_request(TEAM_NAME, 1), 1, REQUEST_SIZE - 1)
\* a Request delivered in one read together with the first decision
LongRequest == pack_request(TEAM_NAME, 1) \o pack_client_payload(STAND)

\* what the first recv of a session can return while the peer's stream is open
RequestInputs ==
    ValidRequests \cup {BadCookieRequest, BadTypeRequest, ShortRequest, LongRequest}

\* "Hit", zero padded, and "Doubl": tokens that are neither "Stand" nor "Hittt"
OTHER_TOKENS == {<<72, 105, 116>>, <<68, 111, 117, 98, 108>>}
WellFormedOtherDecisions == {pack_client_payload(t) : t \in OTHER_TOKENS}
WellFormedDecisions ==
    {pack_client_payload(STAND), pack_client_payload(HITTT)} \cup WellFormedOtherDecisions
BadCookieHit == SetBytes(pack_client_payload(HITTT), 1, BAD_COOKIE)
BadTypeHit == SetBytes(pack_client_payload(HITTT), 5, <<MESSAGE_TYPE_REQUEST>>)
ShortDecision == SubSeq(pack_client_payload(HITTT), 1, CLIENT_PAYLOAD_SIZE - 1)
\* two decisions delivered in one read
LongDecision == pack_client_payload(HITTT) \o pack_client_payload(STAND)

\* what a recv of the player's turn can return while the peer's stream is open
DecisionInputs ==
    WellFormedDecisions \cup {BadCookieHit, BadTypeHit, ShortDecision, LongDecision}

\* the values of max_connections the server is constructed with
MaxConnInputs == {0, 2, 25}

\* The cards of the hands calculate_hand_sum is called with: one of each rank,
\* among them the cards of test_02 and test_03.
HandCards ==
    { <<1, 0>>, <<2, 1>>, <<3, 2>>, <<4, 3>>, <<5, 2>>, <<6, 3>>, <<7, 0>>, <<8, 1>>,
      <<9, 2>>, <<10, 0>>, <<11, 1>>, <<12, 2>>, <<13, 3>> }

\* every list of at most MaxHandLen of them, in every order, repeats included
HandInputs == UNION {[1..n -> HandCards] : n \in 0..MaxHandLen}

\* The characters of the names pack_request is called with: "X", the Hebrew
\* letter alef (two bytes in UTF-8, as the letters of test_06) and U+0000.
NameChars == {88, 1488, 0}

\* the character ch, n times
Repeat(ch, n) == [i \in 1..n |-> ch]

\* every name of at most MaxNameLen characters, and each of them followed by
\* enough of one character to end near the 32 bytes of the name field
ShortNames == UNION {[1..n -> NameChars] : n \in 0..MaxNameLen}
FillCounts == {15, 16, 17, 30, 31, 32}
LongNames ==
    {s \o Repeat(ch, k) : s \in ShortNames, ch \in {88, 1488}, k \in FillCounts}
NameInputs == ShortNames \cup LongNames

\* values of rounds in the domain 1..255 of the wire format
RoundsInputs == {1, 2, 128, 255}

\* the team_name the server is constructed with by default
SERVER_NAME == <<67, 121, 98, 101, 114, 67, 97, 115, 105, 110, 111, 95, 55>>

\* ports bind(('0.0.0.0', 0)) can be given: the ends of the range and one between
EPHEMERAL_PORT == 50000
PortInputs == {1024, EPHEMERAL_PORT, 65535}

\* The cards random.shuffle arranges on top of the deck in the rounds of
\* SpecRound: Ace, 2, 5, 6, 10, King, of which the first PoolSize are used.
PoolCards == << <<10, 0>>, <<6, 3>>, <<5, 2>>, <<1, 0>>, <<2, 1>>, <<13, 1>>, <<1, 1>> >>
Pool == {PoolCards[i] : i \in 1..Min(PoolSize, Len(PoolCards))}

\* every order of the pool's cards
Arrangements(S) ==
    {t \in [1..Cardinality(S) -> S] : \A i, j \in DOMAIN t : i # j => t[i] # t[j]}
RoundTops == Arrangements(Pool)

\* A shuffle that puts the sixteen lowest-valued cards on top, the 2s first:
\* an order in which a round draws many cards.
LowCardsTop ==
    [i \in 1..16 |-> <<2 + ((i - 1) \div NUM_SUITS), (i - 1) % NUM_SUITS>>]

\* Shuffles that deal the player two Aces, against a dealer at 16 and at 20.
TwoAcesTops ==
    { << <<1, 2>>, <<1, 3>>, <<10, 1>>, <<6, 0>> >>,
      << <<1, 2>>, <<1, 3>>, <<10, 1>>, <<13, 0>> >> }

\* the decks get_shuffled_deck returns in the rounds of SpecRound
RoundDecks == {ShuffledDeck(top) : top \in RoundTops \cup {LowCardsTop} \cup TwoAcesTops}

\* The shuffles of the rounds of Spec: the comprehension's own order (two Kings
\* each, a Queen next), and one with a player at 11 whom a hit takes to 21 and a
\* dealer at 12 who has to draw.
ServerTops == { <<>>, << <<5, 2>>, <<6, 3>>, <<2, 1>>, <<10, 0>>, <<13, 1>> >> }

\* the decks get_shuffled_deck returns in the rounds of Spec
ServerDecks == {ShuffledDeck(top) : top \in ServerTops}

(***************************************************************************)
(* The state.                                                              *)
(***************************************************************************)
VARIABLES
    max_connections,       \* the argument BlackjackServer is constructed with
    max_conn_limit,        \* self.max_conn_limit
    connection_semaphore,  \* the value of self.connection_semaphore
    pc,                    \* where each connection's thread is
    peer_eof,              \* the client has closed its end of the connection
    data,                  \* handle_client's data: the first read
    rounds,                \* handle_client's rounds
    round_no,              \* iterations of "for _ in range(rounds)" started
    deck,                  \* play_game_round's deck
    player_hand,           \* play_game_round's player_hand
    dealer_hand,           \* play_game_round's dealer_hand
    round_data,            \* play_game_round's data: the last decision read
    sent,                  \* the payloads sent on the socket in the current round
    tcp_port,              \* self.tcp_port
    running,               \* self.running
    offer_pc,              \* where the thread of broadcast_offers is
    offer_packet,          \* broadcast_offers' offer_packet
    last_offer,            \* the last datagram sendto has transmitted
    call,                  \* the function of the codec or the engine under call
    arg,                   \* its arguments
    ret,                   \* <<>> until it has returned, then the tuple of its results
    client_pc,             \* where client.py's BlackjackClient is ("off": no such client)
    rounds_to_play,        \* client: self.rounds_to_play
    rounds_finished,       \* client: run_game_loop's rounds_finished
    cards_seen,            \* client: self.cards_seen
    waiting_for_hit_response, \* client: self.waiting_for_hit_response
    game_active,           \* client: self.game_active
    buffer,                \* client: self.parser.buffer
    to_server,             \* the client's messages the server has not read yet, each
                           \* with the number of the server's round it was sent in
    to_client              \* the server's bytes the client has not received yet

vars == <<max_connections, max_conn_limit, connection_semaphore, pc, peer_eof, data, rounds,
          round_no, deck, player_hand, dealer_hand, round_data, sent,
          tcp_port, running, offer_pc, offer_packet, last_offer, call, arg, ret,
          client_pc, rounds_to_play, rounds_finished, cards_seen,
          waiting_for_hit_response, game_active, buffer, to_server, to_client>>

round_vars == <<deck, player_hand, dealer_hand, round_data, sent>>

server_vars == <<max_connections, max_conn_limit, connection_semaphore, pc, peer_eof, data,
                 rounds, round_no, round_vars>>

offer_vars == <<tcp_port, running, offer_pc, offer_packet, last_offer>>

call_vars == <<call, arg, ret>>

client_vars == <<client_pc, rounds_to_play, rounds_finished, cards_seen,
                 waiting_for_hit_response, game_active, buffer, to_server>>

client_side == <<client_vars, to_client>>

\* BlackjackServer.__init__: max(1, min(max_connections, 20))
ConnLimit(requested) ==
    Max(MIN_CONN_LIMIT, Min(requested, MAX_CONN_LIMIT))

InitWith(inputs) ==
    /\ max_connections \in inputs
    /\ max_conn_limit = ConnLimit(max_connections)
    /\ connection_semaphore = max_conn_limit
    /\ pc = [c \in Conns |-> "idle"]
    /\ peer_eof = [c \in Conns |-> FALSE]
    /\ data = [c \in Conns |-> Unset]
    /\ rounds = [c \in Conns |-> 0]
    /\ round_no = [c \in Conns |-> 0]
    /\ deck = [c \in Conns |-> <<>>]
    /\ player_hand = [c \in Conns |-> <<>>]
    /\ dealer_hand = [c \in Conns |-> <<>>]
    /\ round_data = [c \in Conns |-> Unset]
    /\ sent = [c \in Conns |-> <<>>]

\* __init__ lines 92-94 and the start of the thread of line 99: the port the
\* system gave to the listening socket is one of ports
InitOffers(ports) ==
    /\ tcp_port \in ports
    /\ running = TRUE
    /\ offer_pc = "setup"
    /\ offer_packet = Unset
    /\ last_offer = <<>>

\* no function is under call
NoCall ==
    /\ call = "none"
    /\ arg = <<>>
    /\ ret = <<>>

\* BlackjackClient.__init__ (client.py lines 82-92) and an empty connection
ClientFields ==
    /\ rounds_finished = 0
    /\ cards_seen = 0
    /\ waiting_for_hit_response = FALSE
    /\ game_active = FALSE
    /\ buffer = <<>>
    /\ to_server = <<>>
    /\ to_client = <<>>

\* the peers are the environment: client.py is not running
NoClient == client_pc = "off" /\ rounds_to_play = 1 /\ ClientFields

\* the server of Spec, constructed with any of MaxConnInputs
Init == InitWith(MaxConnInputs) /\ InitOffers({EPHEMERAL_PORT}) /\ NoCall /\ NoClient

\* the server of SpecRound, constructed with max_connections = 1
InitRound == InitWith({1}) /\ InitOffers({EPHEMERAL_PORT}) /\ NoCall /\ NoClient

(***************************************************************************)
(* start: the accept loop hands each accepted socket to a new thread       *)
(* running manage_connection.  A connection identifier is free again once  *)
(* its thread has returned.                                                *)
(***************************************************************************)
Accept(c) ==
    /\ pc[c] \in {"idle", "closed", "rejected"}
    /\ pc' = [pc EXCEPT ![c] = "manage"]
    /\ peer_eof' = [peer_eof EXCEPT ![c] = FALSE]
    /\ data' = [data EXCEPT ![c] = Unset]
    /\ rounds' = [rounds EXCEPT ![c] = 0]
    /\ round_no' = [round_no EXCEPT ![c] = 0]
    /\ deck' = [deck EXCEPT ![c] = <<>>]
    /\ player_hand' = [player_hand EXCEPT ![c] = <<>>]
    /\ dealer_hand' = [dealer_hand EXCEPT ![c] = <<>>]
    /\ round_data' = [round_data EXCEPT ![c] = Unset]
    /\ sent' = [sent EXCEPT ![c] = <<>>]
    /\ UNCHANGED <<offer_vars, call_vars, client_side, max_connections, max_conn_limit, connection_semaphore>>

\* the client closes its end; the server's reads then return b''
PeerClose(c) ==
    /\ pc[c] \notin {"idle", "closed", "rejected", "release"}
    /\ ~peer_eof[c]
    /\ peer_eof' = [peer_eof EXCEPT ![c] = TRUE]
    /\ UNCHANGED <<offer_vars, call_vars, client_side, max_connections, max_conn_limit, connection_semaphore, pc, data, rounds,
                   round_no, round_vars>>

(***************************************************************************)
(* manage_connection.                                                      *)
(***************************************************************************)
\* mutant: an acquire that also succeeds at value 0
AcquireAtZero(value) == value >= 0

\* mutant: an acquire that keeps one slot back
AcquireKeepsOne(value) == value > 1

\* Semaphore.acquire(blocking=False) succeeds when the value is positive
AcquireSucceeds(value) == value > 0

\* lines 122-124: admitted into handle_client, or closed and returned
ManageConnection(c) ==
    /\ pc[c] = "manage"
    /\ IF AcquireSucceeds(connection_semaphore)
       THEN /\ connection_semaphore' = connection_semaphore - 1
            /\ pc' = [pc EXCEPT ![c] = "recv_request"]
       ELSE /\ pc' = [pc EXCEPT ![c] = "rejected"]
            /\ UNCHANGED connection_semaphore
    /\ peer_eof' = [peer_eof EXCEPT ![c] = FALSE]
    /\ UNCHANGED <<offer_vars, call_vars, client_side, max_connections, max_conn_limit, data, rounds, round_no, round_vars>>

\* mutant: a release that is not in a finally block is skipped by an exception
OnExceptionNoRelease == "closed"

\* where an exception raised inside handle_client's try block leaves the thread:
\* "except Exception: pass", then the finally block
OnException == "close_sock"

\* mutant: a return that goes back to the read instead of leaving the thread
OnReturnReadsAgain == "recv_request"

\* where "return" inside handle_client's try block leaves the thread
OnReturn == "close_sock"

\* line 153: finally: sock.close(); the peer is no longer observed
CloseSock(c) ==
    /\ pc[c] = "close_sock"
    /\ pc' = [pc EXCEPT ![c] = "release"]
    /\ peer_eof' = [peer_eof EXCEPT ![c] = FALSE]
    /\ UNCHANGED <<offer_vars, call_vars, client_side, max_connections, max_conn_limit, connection_semaphore, data, rounds,
                   round_no, round_vars>>

\* Semaphore.release()
Released(value) == value + 1

\* line 128: finally: self.connection_semaphore.release(); the thread ends and
\* handle_client's locals with it
Release(c) ==
    /\ pc[c] = "release"
    /\ connection_semaphore' = Released(connection_semaphore)
    /\ pc' = [pc EXCEPT ![c] = "closed"]
    /\ data' = [data EXCEPT ![c] = Unset]
    /\ rounds' = [rounds EXCEPT ![c] = 0]
    /\ round_no' = [round_no EXCEPT ![c] = 0]
    /\ UNCHANGED <<offer_vars, call_vars, client_side, max_connections, max_conn_limit, peer_eof, round_vars>>

(***************************************************************************)
(* handle_client.                                                          *)
(***************************************************************************)
\* mutant: line 140 without the check of the message type
RequestAcceptedAnyType(unpacked) ==
    ~(unpacked = <<>> \/ unpacked[1] # MAGIC_COOKIE)

\* line 140, negated: the request is served
RequestAccepted(unpacked) ==
    ~(unpacked = <<>> \/ unpacked[1] # MAGIC_COOKIE \/ unpacked[2] # MESSAGE_TYPE_REQUEST)

\* lines 133-146, with the buffer d that recv returned
HandleRequest(c, d) ==
    /\ data' = [data EXCEPT ![c] = d]
    /\ IF d = <<>> THEN
            /\ pc' = [pc EXCEPT ![c] = OnReturn]
            /\ UNCHANGED rounds
       ELSE IF unpack_request_raises(d) THEN
            /\ pc' = [pc EXCEPT ![c] = OnException]
            /\ UNCHANGED rounds
       ELSE IF ~RequestAccepted(unpack_request(d)) THEN
            /\ pc' = [pc EXCEPT ![c] = OnReturn]
            /\ UNCHANGED rounds
       ELSE /\ rounds' = [rounds EXCEPT ![c] = unpack_request(d)[3]]
            /\ pc' = [pc EXCEPT ![c] = "round_loop"]

\* line 133: data = sock.recv(1024) returns
RecvRequest(c) ==
    /\ pc[c] = "recv_request"
    /\ IF peer_eof[c] THEN HandleRequest(c, <<>>)
       ELSE \E d \in RequestInputs : HandleRequest(c, d)
    /\ UNCHANGED <<offer_vars, call_vars, client_side, max_connections, max_conn_limit, connection_semaphore, peer_eof, round_no, round_vars>>

\* line 133: sock.recv raises (the 3000 s timeout, or a reset by the peer)
RecvRequestRaises(c) ==
    /\ pc[c] = "recv_request"
    /\ pc' = [pc EXCEPT ![c] = OnException]
    /\ UNCHANGED <<offer_vars, call_vars, client_side, max_connections, max_conn_limit, connection_semaphore, peer_eof, data, rounds,
                   round_no, round_vars>>

\* mutant: hands and deck kept in attributes of the server that every thread shares
AllRoundLocalsGone(c) ==
    /\ deck' = [o \in Conns |-> <<>>]
    /\ player_hand' = [o \in Conns |-> <<>>]
    /\ dealer_hand' = [o \in Conns |-> <<>>]
    /\ round_data' = [o \in Conns |-> Unset]
    /\ sent' = [o \in Conns |-> <<>>]

\* play_game_round has returned or raised: its locals are gone, and sent starts
\* again with the next round
RoundLocalsGone(c) ==
    /\ deck' = [deck EXCEPT ![c] = <<>>]
    /\ player_hand' = [player_hand EXCEPT ![c] = <<>>]
    /\ dealer_hand' = [dealer_hand EXCEPT ![c] = <<>>]
    /\ round_data' = [round_data EXCEPT ![c] = Unset]
    /\ sent' = [sent EXCEPT ![c] = <<>>]

\* mutant: a loop that runs once more than range(rounds)
MoreRoundsInclusive(started, total) == started <= total

\* line 148: "for _ in range(rounds)" has another iteration to run
MoreRounds(started, total) == started < total

\* line 148: the for loop is exhausted; the try block ends
SessionEnd(c) ==
    /\ pc[c] = "round_loop"
    /\ ~MoreRounds(round_no[c], rounds[c])
    /\ pc' = [pc EXCEPT ![c] = "close_sock"]
    /\ RoundLocalsGone(c)
    /\ UNCHANGED <<offer_vars, call_vars, client_side, max_connections, max_conn_limit, connection_semaphore, peer_eof, data, rounds,
                   round_no>>

\* an exception leaves play_game_round and handle_client's try block
RoundRaises(c) ==
    /\ pc' = [pc EXCEPT ![c] = OnException]
    /\ RoundLocalsGone(c)

\* the connection client.py's BlackjackClient makes, when it runs
ClientConn == 1

\* sock is the connection of client.py's BlackjackClient
IsClientSocket(c) == c = ClientConn /\ client_pc # "off"

(***************************************************************************)
(* play_game_round.                                                        *)
(***************************************************************************)
\* sock.send(payload) on connection c, then control goes to next.  It can raise
\* once the peer has closed; the exception leaves handle_client's try block.
Send(c, payload, next) ==
    \/ /\ sent' = [sent EXCEPT ![c] = Append(@, payload)]
       /\ to_client' = IF IsClientSocket(c) THEN to_client \o payload ELSE to_client
       /\ pc' = [pc EXCEPT ![c] = next]
       /\ UNCHANGED <<deck, player_hand, dealer_hand, round_data>>
    \/ /\ peer_eof[c]
       /\ RoundRaises(c)
       /\ UNCHANGED to_client

\* mutant: a card payload packed with the rank and suit of the outcome payloads
CardPayloadNoCard(result, card) == pack_server_payload(result, 0, 0)

\* the payload that shows a card
CardPayload(result, card) == pack_server_payload(result, card[1], card[2])

\* mutant: the dealer's second card is read from the list and left in it
DeckAfterDealKeepsLast(d0) == SubSeq(d0, 1, Len(d0) - 3)

\* lines 157-158: the list after the four calls of deck.pop()
DeckAfterDeal(d0) == SubSeq(d0, 1, Len(d0) - 4)

\* lines 148, 156-158: the next iteration starts; get_shuffled_deck returns one
\* of decks, and four cards are popped
Deal(c, decks) ==
    /\ pc[c] = "round_loop"
    /\ MoreRounds(round_no[c], rounds[c])
    /\ \E d0 \in decks :
         LET n  == Len(d0)
         IN  /\ player_hand' = [player_hand EXCEPT ![c] = <<d0[n], d0[n - 1]>>]
             /\ dealer_hand' = [dealer_hand EXCEPT ![c] = <<d0[n - 2], d0[n - 3]>>]
             /\ deck' = [deck EXCEPT ![c] = DeckAfterDeal(d0)]
    /\ round_no' = [round_no EXCEPT ![c] = @ + 1]
    /\ round_data' = [round_data EXCEPT ![c] = Unset]
    /\ sent' = [sent EXCEPT ![c] = <<>>]
    /\ pc' = [pc EXCEPT ![c] = "send_p1"]
    /\ UNCHANGED <<offer_vars, call_vars, client_side, max_connections, max_conn_limit, connection_semaphore, peer_eof, data, rounds>>

\* lines 160-161, first iteration
SendPlayerCard1(c) ==
    /\ pc[c] = "send_p1"
    /\ Send(c, CardPayload(RESULT_IN_PROGRESS, player_hand[c][1]), "send_p2")
    /\ UNCHANGED <<offer_vars, call_vars, client_vars, max_connections, max_conn_limit, connection_semaphore, peer_eof, data, rounds,
                   round_no>>

\* lines 160-161, second iteration
SendPlayerCard2(c) ==
    /\ pc[c] = "send_p2"
    /\ Send(c, CardPayload(RESULT_IN_PROGRESS, player_hand[c][2]), "send_d1")
    /\ UNCHANGED <<offer_vars, call_vars, client_vars, max_connections, max_conn_limit, connection_semaphore, peer_eof, data, rounds,
                   round_no>>

\* mutant: line 162 showing dealer_hand[1]
UpCardIsHole(hand) == hand[2]

\* dealer_hand[0], the card line 162 shows
UpCard(hand) == hand[1]

\* dealer_hand[1], the card line 178 shows
HoleCard(hand) == hand[2]

\* line 162
SendUpCard(c) ==
    /\ pc[c] = "send_d1"
    /\ Send(c, CardPayload(RESULT_IN_PROGRESS, UpCard(dealer_hand[c])), "player_turn")
    /\ UNCHANGED <<offer_vars, call_vars, client_vars, max_connections, max_conn_limit, connection_semaphore, peer_eof, data, rounds,
                   round_no>>

\* mutant: a loop that also asks at a total of 21
PlayerAskedAt21(hand) == calculate_hand_sum(hand) <= TARGET

\* line 164: the condition of the player's loop
PlayerAsked(hand) == calculate_hand_sum(hand) < TARGET

\* line 164, condition false: on to line 178
PlayerTurnOver(c) ==
    /\ pc[c] = "player_turn"
    /\ ~PlayerAsked(player_hand[c])
    /\ pc' = [pc EXCEPT ![c] = "send_hole"]
    /\ UNCHANGED <<offer_vars, call_vars, client_side, max_connections, max_conn_limit, connection_semaphore, peer_eof, data, rounds,
                   round_no, round_vars>>

\* line 168: "not decision or decision[2] == 'Stand'"
IsStand(decision) == decision = <<>> \/ decision[3] = STAND

\* mutant: every decision that is not "Stand" is a hit
IsHitUnlessStand(decision) == TRUE

\* line 170: decision[2] == "Hittt"
IsHit(decision) == decision[3] = HITTT

\* line 173: the hand is bust
IsBust(hand) == calculate_hand_sum(hand) > TARGET

\* lines 171-176 up to the send: a card is popped for the player.  deck.pop()
\* raises IndexError on an empty list.
Hit(c, d) ==
    IF deck[c] = <<>> THEN RoundRaises(c)
    ELSE
        /\ round_data' = [round_data EXCEPT ![c] = d]
        /\ UNCHANGED <<dealer_hand, sent>>
        /\ deck' = [deck EXCEPT ![c] = Front(@)]
        /\ player_hand' = [player_hand EXCEPT ![c] = Append(@, Last(deck[c]))]
        /\ pc' = [pc EXCEPT ![c] =
                    IF IsBust(Append(player_hand[c], Last(deck[c])))
                    THEN "send_bust" ELSE "send_hit"]

\* lines 165-173, with the buffer d that recv returned
Decided(c, d, next) ==
    /\ round_data' = [round_data EXCEPT ![c] = d]
    /\ pc' = [pc EXCEPT ![c] = next]
    /\ UNCHANGED <<deck, player_hand, dealer_hand, sent>>

HandleDecision(c, d) ==
    IF d = <<>> THEN Decided(c, d, "send_hole")
    ELSE IF unpack_client_payload_raises(d) THEN RoundRaises(c)
    ELSE IF IsStand(unpack_client_payload(d)) THEN Decided(c, d, "send_hole")
    ELSE IF IsHit(unpack_client_payload(d)) THEN Hit(c, d)
    ELSE Decided(c, d, "player_turn")

\* line 165: data = sock.recv(1024) returns
RecvDecision(c) ==
    /\ pc[c] = "player_turn"
    /\ PlayerAsked(player_hand[c])
    /\ IF peer_eof[c] THEN HandleDecision(c, <<>>)
       ELSE \E d \in DecisionInputs : HandleDecision(c, d)
    /\ UNCHANGED <<offer_vars, call_vars, client_side, max_connections, max_conn_limit, connection_semaphore, peer_eof, data, rounds,
                   round_no>>

\* line 165: sock.recv raises
RecvDecisionRaises(c) ==
    /\ pc[c] = "player_turn"
    /\ PlayerAsked(player_hand[c])
    /\ RoundRaises(c)
    /\ UNCHANGED <<offer_vars, call_vars, client_side, max_connections, max_conn_limit, connection_semaphore, peer_eof, data, rounds,
                   round_no>>

\* mutant: line 175's return is missing
AfterBustNoReturn == "send_hole"

\* where line 175's return leaves the thread: back in handle_client's for loop
AfterBust == "round_loop"

\* lines 174-175: new_card is the card just appended
SendBust(c) ==
    /\ pc[c] = "send_bust"
    /\ Send(c, CardPayload(RESULT_LOSS, Last(player_hand[c])), AfterBust)
    /\ UNCHANGED <<offer_vars, call_vars, client_vars, max_connections, max_conn_limit, connection_semaphore, peer_eof, data, rounds,
                   round_no>>

\* line 176
SendHit(c) ==
    /\ pc[c] = "send_hit"
    /\ Send(c, CardPayload(RESULT_IN_PROGRESS, Last(player_hand[c])), "player_turn")
    /\ UNCHANGED <<offer_vars, call_vars, client_vars, max_connections, max_conn_limit, connection_semaphore, peer_eof, data, rounds,
                   round_no>>

\* line 178
SendHoleCard(c) ==
    /\ pc[c] = "send_hole"
    /\ Send(c, CardPayload(RESULT_IN_PROGRESS, HoleCard(dealer_hand[c])), "dealer_turn")
    /\ UNCHANGED <<offer_vars, call_vars, client_vars, max_connections, max_conn_limit, connection_semaphore, peer_eof, data, rounds,
                   round_no>>

\* mutant: the dealer also draws at 17
DealerDrawsAt17(hand) == calculate_hand_sum(hand) <= DEALER_STAND

\* line 179: the condition of the dealer's loop
DealerDraws(hand) == calculate_hand_sum(hand) < DEALER_STAND

\* lines 179-181: the dealer pops a card
DealerDraw(c) ==
    /\ pc[c] = "dealer_turn"
    /\ DealerDraws(dealer_hand[c])
    /\ IF deck[c] = <<>> THEN RoundRaises(c)
       ELSE /\ deck' = [deck EXCEPT ![c] = Front(@)]
            /\ dealer_hand' = [dealer_hand EXCEPT ![c] = Append(@, Last(deck[c]))]
            /\ pc' = [pc EXCEPT ![c] = "send_dealer_card"]
            /\ UNCHANGED <<player_hand, round_data, sent>>
    /\ UNCHANGED <<offer_vars, call_vars, client_side, max_connections, max_conn_limit, connection_semaphore, peer_eof, data, rounds,
                   round_no>>

\* line 182
SendDealerCard(c) ==
    /\ pc[c] = "send_dealer_card"
    /\ Send(c, CardPayload(RESULT_IN_PROGRESS, Last(dealer_hand[c])), "dealer_turn")
    /\ UNCHANGED <<offer_vars, call_vars, client_vars, max_connections, max_conn_limit, connection_semaphore, peer_eof, data, rounds,
                   round_no>>

\* line 179, condition false: on to line 184
DealerStands(c) ==
    /\ pc[c] = "dealer_turn"
    /\ ~DealerDraws(dealer_hand[c])
    /\ pc' = [pc EXCEPT ![c] = "resolve"]
    /\ UNCHANGED <<offer_vars, call_vars, client_side, max_connections, max_conn_limit, connection_semaphore, peer_eof, data, rounds,
                   round_no, round_vars>>

\* lines 187-192: the result of the first payload the round's last step sends
FirstResult(p_total, d_total) ==
    IF d_total > 21 \/ p_total > d_total THEN RESULT_WIN
    ELSE IF d_total > p_total THEN RESULT_LOSS
    ELSE RESULT_TIE

\* where control goes after that payload: line 193 follows line 192
AfterResult(result) ==
    IF result = RESULT_TIE THEN "send_tie_win" ELSE "round_loop"

\* lines 184-192
Resolve(c) ==
    /\ pc[c] = "resolve"
    /\ LET p_total == calculate_hand_sum(player_hand[c])
           d_total == calculate_hand_sum(dealer_hand[c])
           result  == FirstResult(p_total, d_total)
       IN  Send(c, pack_server_payload(result, 0, 0), AfterResult(result))
    /\ UNCHANGED <<offer_vars, call_vars, client_vars, max_connections, max_conn_limit, connection_semaphore, peer_eof, data, rounds,
                   round_no>>

\* line 193: the second payload of the else branch
SendTieWin(c) ==
    /\ pc[c] = "send_tie_win"
    /\ Send(c, pack_server_payload(RESULT_WIN, 0, 0), "round_loop")
    /\ UNCHANGED <<offer_vars, call_vars, client_vars, max_connections, max_conn_limit, connection_semaphore, peer_eof, data, rounds,
                   round_no>>

(***************************************************************************)
(* broadcast_offers, the daemon thread started at line 99.                 *)
(***************************************************************************)
\* lines 109-112: the socket is made and the offer is packed once, from
\* self.tcp_port as it is then
BroadcastSetup ==
    /\ offer_pc = "setup"
    /\ offer_packet' = pack_offer(SERVER_NAME, tcp_port)
    /\ offer_pc' = "loop"
    /\ UNCHANGED <<tcp_port, running, last_offer>>

\* line 114: while self.running
BroadcastLoop ==
    /\ offer_pc = "loop"
    /\ offer_pc' = IF running THEN "sendto" ELSE "stopped"
    /\ UNCHANGED <<tcp_port, running, offer_packet, last_offer>>

\* mutant: an exception of sendto that is not caught ends the thread
BroadcastErrorEndsThread == "stopped"

\* where an exception raised by line 116 leaves the thread: in the except clause
AfterBroadcastError == "except"

\* line 116: sendto transmits the packet, or raises
BroadcastSend ==
    /\ offer_pc = "sendto"
    /\ \/ /\ last_offer' = offer_packet
          /\ offer_pc' = "sleep"
       \/ /\ offer_pc' = AfterBroadcastError
          /\ UNCHANGED last_offer
    /\ UNCHANGED <<tcp_port, running, offer_packet>>

\* line 117: time.sleep(1) returns
BroadcastSleep ==
    /\ offer_pc = "sleep"
    /\ offer_pc' = "loop"
    /\ UNCHANGED <<tcp_port, running, offer_packet, last_offer>>

\* lines 118-119: the error is printed and the loop goes on
BroadcastError ==
    /\ offer_pc = "except"
    /\ offer_pc' = "loop"
    /\ UNCHANGED <<tcp_port, running, offer_packet, last_offer>>

\* a step of the broadcast thread
Broadcast ==
    /\ \/ BroadcastSetup
       \/ BroadcastLoop
       \/ BroadcastSend
       \/ BroadcastSleep
       \/ BroadcastError
    /\ UNCHANGED <<server_vars, call_vars, client_side>>

(***************************************************************************)
(* The engine and the codec called on their own, as test_server.py calls   *)
(* them: call names the function, arg its arguments, ret its result.       *)
(***************************************************************************)
\* BlackjackEngine.calculate_hand_sum(arg)
CallHandSum ==
    /\ call = "calculate_hand_sum"
    /\ ret = <<>>
    /\ ret' = <<calculate_hand_sum(arg)>>
    /\ UNCHANGED <<call, arg, server_vars, offer_vars, client_side>>

\* unpack_request(pack_request(team_name, rounds)), and the name decoded from its
\* name field; arg is <<team_name, rounds>>, the name given as its code points
RequestRoundTrip ==
    /\ call = "pack_request"
    /\ ret = <<>>
    /\ LET unpacked == unpack_request(pack_request(EncodeUtf8(arg[1]), arg[2]))
       IN  ret' = <<unpacked, DecodeName(unpacked[4])>>
    /\ UNCHANGED <<call, arg, server_vars, offer_vars, client_side>>

\* unpack_client_payload(pack_client_payload(decision)); arg is the decision
DecisionRoundTrip ==
    /\ call = "pack_client_payload"
    /\ ret = <<>>
    /\ ret' = <<unpack_client_payload(pack_client_payload(EncodeUtf8(arg)))>>
    /\ UNCHANGED <<call, arg, server_vars, offer_vars, client_side>>

(***************************************************************************)
(* client.py: BlackjackClient on connection ClientConn, with the server's  *)
(* thread of that connection reading what the client has sent.  The model  *)
(* is untimed: select's 0.5 s can run out whenever no byte is waiting.     *)
(***************************************************************************)
\* Protocol.SIZE_GAME_PAYLOAD
SIZE_GAME_PAYLOAD == 9

\* self.player_name = "NivTheMaster"
PLAYER_NAME == <<78, 105, 118, 84, 104, 101, 77, 97, 115, 116, 101, 114>>

\* what the user answers to "Enter rounds to play"
ClientRoundsInputs == 1..MaxRounds

\* client.py lines 136-137: the request packet
ClientRequestPacket(rounds_asked) ==
    MAGIC_COOKIE \o <<MESSAGE_TYPE_REQUEST, rounds_asked>> \o Ljust(PLAYER_NAME, NAME_SIZE)

\* send_command: struct.pack('!I B 5s', cookie, MSG_PAYLOAD, cmd_str.encode())
CommandPacket(cmd_str) ==
    MAGIC_COOKIE \o <<MESSAGE_TYPE_PAYLOAD>> \o Ljust(cmd_str, 5)

\* the bytes one recv of the server returns: all that the client has sent
RECURSIVE Received(_)
Received(q) == IF q = <<>> THEN <<>> ELSE q[1][1] \o Received(Tail(q))

\* the server has closed the connection's socket (line 153)
ServerHasClosed == pc[ClientConn] \in {"release", "closed"}

\* the client's fields as run_game_loop's inner loop works on them
ClientState ==
    [cards_seen |-> cards_seen, waiting |-> waiting_for_hit_response,
     game_active |-> game_active, rounds_finished |-> rounds_finished,
     buffer |-> buffer, returned |-> FALSE]

\* handle_game_message line 222: res != Protocol.RES_NOT_OVER
RoundOver(result) == result # RESULT_IN_PROGRESS

\* run_game_loop lines 167-178 with parse_next and handle_game_message: the
\* messages in the buffer are handled one by one; the function returns when
\* the last round is counted
RECURSIVE RunParser(_)
RunParser(st) ==
    IF Len(st.buffer) < SIZE_GAME_PAYLOAD THEN st
    ELSE IF SubSeq(st.buffer, 1, 4) # MAGIC_COOKIE
    THEN RunParser([st EXCEPT !.buffer = <<>>])
    ELSE LET result  == st.buffer[6]
             rest    == SubSeq(st.buffer, SIZE_GAME_PAYLOAD + 1, Len(st.buffer))
             seen    == st.cards_seen + 1
             waiting == IF seen > 3 THEN FALSE ELSE st.waiting
             counted == st.rounds_finished + 1
         IN  IF ~RoundOver(result)
             THEN RunParser([st EXCEPT !.buffer = rest, !.cards_seen = seen,
                                       !.waiting = waiting])
             ELSE IF counted < rounds_to_play
             THEN RunParser([st EXCEPT !.buffer = rest, !.cards_seen = 0,
                                       !.waiting = FALSE, !.game_active = TRUE,
                                       !.rounds_finished = counted])
             ELSE [st EXCEPT !.buffer = rest, !.cards_seen = seen,
                             !.waiting = waiting, !.game_active = FALSE,
                             !.rounds_finished = counted, !.returned = TRUE]

\* connect's finally: the client closes its socket
ClientCloses ==
    /\ client_pc' = "done"
    /\ peer_eof' = IF pc[ClientConn] \in {"idle", "closed", "rejected", "release"}
                   THEN peer_eof ELSE [peer_eof EXCEPT ![ClientConn] = TRUE]

\* client.py lines 129-140 and 150-151: connect, send the request, enter the
\* game loop
ClientConnect ==
    /\ client_pc = "connect"
    /\ pc[ClientConn] = "idle"
    /\ to_server' = << <<ClientRequestPacket(rounds_to_play), 0>> >>
    /\ rounds_finished' = 0
    /\ cards_seen' = 0
    /\ waiting_for_hit_response' = FALSE
    /\ game_active' = TRUE
    /\ client_pc' = "select"
    /\ UNCHANGED <<server_vars, offer_vars, call_vars, rounds_to_play, buffer, to_client>>

\* lines 156-178: the socket is readable; recv returns what has arrived, or
\* b'' after the server's close
ClientRecv ==
    /\ client_pc = "select"
    /\ rounds_finished < rounds_to_play
    /\ to_client # <<>> \/ ServerHasClosed
    /\ IF to_client = <<>>
       THEN /\ ClientCloses
            /\ UNCHANGED <<rounds_finished, cards_seen, waiting_for_hit_response,
                           game_active, buffer, to_client>>
       ELSE LET st == RunParser([ClientState EXCEPT !.buffer = buffer \o to_client])
            IN  /\ cards_seen' = st.cards_seen
                /\ waiting_for_hit_response' = st.waiting
                /\ game_active' = st.game_active
                /\ rounds_finished' = st.rounds_finished
                /\ buffer' = st.buffer
                /\ to_client' = <<>>
                /\ IF st.returned THEN ClientCloses
                   ELSE client_pc' = "select" /\ UNCHANGED peer_eof
    /\ UNCHANGED <<max_connections, max_conn_limit, connection_semaphore, pc, data, rounds,
                   round_no, round_vars, offer_vars, call_vars, rounds_to_play, to_server>>

\* lines 188-189 and 234-241: select ran out with nothing to read, and
\* check_for_user_input gets as far as input()
ClientPrompt ==
    /\ client_pc = "select"
    /\ to_client = <<>> /\ ~ServerHasClosed
    /\ game_active
    /\ cards_seen >= 3
    /\ ~waiting_for_hit_response
    /\ client_pc' = "input"
    /\ UNCHANGED <<server_vars, offer_vars, call_vars, rounds_to_play, rounds_finished,
                   cards_seen, waiting_for_hit_response, game_active, buffer, to_server,
                   to_client>>

\* lines 241-262: the user answers 1 or 2 and the command is sent; bytes sent
\* to a socket the server has closed go nowhere
ClientChoose ==
    /\ client_pc = "input"
    /\ \E cmd \in {HITTT, STAND} :
         /\ to_server' = IF ServerHasClosed THEN to_server
                         ELSE Append(to_server, <<CommandPacket(cmd), round_no[ClientConn]>>)
         /\ waiting_for_hit_response' = (cmd = HITTT)
         /\ game_active' = (cmd # STAND)
    /\ client_pc' = "select"
    /\ UNCHANGED <<server_vars, offer_vars, call_vars, rounds_to_play, rounds_finished,
                   cards_seen, buffer, to_client>>

\* line 261: send raises OSError on a connection the server has closed;
\* connect's except clause and finally block follow
ClientSendRaises ==
    /\ client_pc = "input"
    /\ ServerHasClosed
    /\ ClientCloses
    /\ UNCHANGED <<max_connections, max_conn_limit, connection_semaphore, pc, data, rounds,
                   round_no, round_vars, offer_vars, call_vars, rounds_to_play,
                   rounds_finished, cards_seen, waiting_for_hit_response, game_active,
                   buffer, to_server, to_client>>

\* server.py line 103: accept returns the client's connection
AcceptClient ==
    /\ client_pc \notin {"off", "connect"}
    /\ pc[ClientConn] = "idle"
    /\ Accept(ClientConn)

\* server.py line 133: recv returns what the client has sent, or b'' after the
\* client's close
RecvRequestFromClient(c) ==
    /\ IsClientSocket(c)
    /\ pc[c] = "recv_request"
    /\ to_server # <<>> \/ peer_eof[c]
    /\ HandleRequest(c, Received(to_server))
    /\ to_server' = <<>>
    /\ UNCHANGED <<offer_vars, call_vars, max_connections, max_conn_limit,
                   connection_semaphore, peer_eof, round_no, round_vars, client_pc,
                   rounds_to_play, rounds_finished, cards_seen, waiting_for_hit_response,
                   game_active, buffer, to_client>>

\* server.py line 165: recv returns what the client has sent, or b'' after the
\* client's close
RecvDecisionFromClient(c) ==
    /\ IsClientSocket(c)
    /\ pc[c] = "player_turn"
    /\ PlayerAsked(player_hand[c])
    /\ to_server # <<>> \/ peer_eof[c]
    /\ HandleDecision(c, Received(to_server))
    /\ to_server' = <<>>
    /\ UNCHANGED <<offer_vars, call_vars, max_connections, max_conn_limit,
                   connection_semaphore, peer_eof, data, rounds, round_no, client_pc,
                   rounds_to_play, rounds_finished, cards_seen, waiting_for_hit_response,
                   game_active, buffer, to_client>>

\* the steps of the server's thread for the client's connection
ClientThread(c) ==
    \/ ManageConnection(c)
    \/ RecvRequestFromClient(c)
    \/ RecvRequestRaises(c)
    \/ Deal(c, ServerDecks)
    \/ SessionEnd(c)
    \/ CloseSock(c)
    \/ Release(c)
    \/ SendPlayerCard1(c)
    \/ SendPlayerCard2(c)
    \/ SendUpCard(c)
    \/ PlayerTurnOver(c)
    \/ RecvDecisionFromClient(c)
    \/ RecvDecisionRaises(c)
    \/ SendBust(c)
    \/ SendHit(c)
    \/ SendHoleCard(c)
    \/ DealerDraw(c)
    \/ SendDealerCard(c)
    \/ DealerStands(c)
    \/ Resolve(c)
    \/ SendTieWin(c)

(***************************************************************************)
(* The specifications.                                                     *)
(***************************************************************************)
Step(c) ==
    \/ Accept(c)
    \/ PeerClose(c)
    \/ ManageConnection(c)
    \/ RecvRequest(c)
    \/ RecvRequestRaises(c)
    \/ SessionEnd(c)
    \/ CloseSock(c)
    \/ Release(c)
    \/ SendPlayerCard1(c)
    \/ SendPlayerCard2(c)
    \/ SendUpCard(c)
    \/ PlayerTurnOver(c)
    \/ RecvDecision(c)
    \/ RecvDecisionRaises(c)
    \/ SendBust(c)
    \/ SendHit(c)
    \/ SendHoleCard(c)
    \/ DealerDraw(c)
    \/ SendDealerCard(c)
    \/ DealerStands(c)
    \/ Resolve(c)
    \/ SendTieWin(c)

\* the server with concurrent sessions, its rounds dealt from ServerTops
Next == \E c \in Conns : Step(c) \/ Deal(c, ServerDecks)

Spec == Init /\ [][Next]_vars

\* the server with one admission slot, its rounds dealt from RoundTops
NextRound == \E c \in Conns : Step(c) \/ Deal(c, RoundDecks)

SpecRound == InitRound /\ [][NextRound]_vars

\* the server with one admission slot and its broadcast thread, the threads
\* scheduled fairly
InitBroadcast == InitWith({1}) /\ InitOffers(PortInputs) /\ NoCall /\ NoClient

NextBroadcast == Broadcast \/ \E c \in Conns : Step(c) \/ Deal(c, ServerDecks)

SpecBroadcast == InitBroadcast /\ [][NextBroadcast]_vars /\ WF_vars(Broadcast)

\* the steps of the thread that line 104 starts for connection c
Thread(c) ==
    \/ ManageConnection(c)
    \/ RecvRequest(c)
    \/ RecvRequestRaises(c)
    \/ Deal(c, ServerDecks)
    \/ SessionEnd(c)
    \/ CloseSock(c)
    \/ Release(c)
    \/ SendPlayerCard1(c)
    \/ SendPlayerCard2(c)
    \/ SendUpCard(c)
    \/ PlayerTurnOver(c)
    \/ RecvDecision(c)
    \/ RecvDecisionRaises(c)
    \/ SendBust(c)
    \/ SendHit(c)
    \/ SendHoleCard(c)
    \/ DealerDraw(c)
    \/ SendDealerCard(c)
    \/ DealerStands(c)
    \/ Resolve(c)
    \/ SendTieWin(c)

\* lines 165-168: a read of the player's loop that ends the loop: "Stand",
\* b'' after the client's close, a short buffer, or an exception such as the
\* timeout of line 132
PlayerStops(c) ==
    /\ RecvDecision(c) \/ RecvDecisionRaises(c)
    /\ pc'[c] \notin {"player_turn", "send_hit", "send_bust"}

\* The server with one admission slot under fair scheduling: a thread that can
\* take a step eventually takes one (a blocked recv returns with data, with
\* b'' or by the timeout), and no client keeps a round's player loop reading
\* for ever.
SpecFair ==
    /\ InitRound /\ [][Next]_vars
    /\ \A c \in Conns : WF_vars(Thread(c)) /\ WF_vars(PlayerStops(c))

\* client.py's BlackjackClient in one session with the server, which has one
\* admission slot
InitClient ==
    /\ InitWith({1}) /\ InitOffers({EPHEMERAL_PORT}) /\ NoCall
    /\ client_pc = "connect"
    /\ rounds_to_play \in ClientRoundsInputs
    /\ ClientFields

NextClient ==
    \/ ClientConnect
    \/ ClientRecv
    \/ ClientPrompt
    \/ ClientChoose
    \/ ClientSendRaises
    \/ AcceptClient
    \/ ClientThread(ClientConn)

SpecClient == InitClient /\ [][NextClient]_vars

\* the functions of BlackjackEngine and BlackjackProtocol, each called once
\* with one of the inputs
InitFunctions ==
    /\ InitWith({1}) /\ InitOffers({EPHEMERAL_PORT}) /\ NoClient
    /\ ret = <<>>
    /\ \/ call = "calculate_hand_sum" /\ arg \in HandInputs
       \/ call = "pack_request" /\ arg \in NameInputs \X RoundsInputs
       \/ call = "pack_client_payload" /\ arg \in {HITTT, STAND}

NextFunctions ==
    \/ CallHandSum
    \/ RequestRoundTrip
    \/ DecisionRoundTrip

SpecFunctions == InitFunctions /\ [][NextFunctions]_vars

(***************************************************************************)
(* Notions the properties use.                                             *)
(***************************************************************************)
\* the capacity, as the constructor's argument determines it
Capacity ==
    IF max_connections > 20 THEN 20
    ELSE IF max_connections < 1 THEN 1 ELSE max_connections

\* the connection has passed admission and has not released its slot
HoldsSlot(c) == pc[c] \notin {"idle", "manage", "rejected", "closed"}
Holders == {c \in Conns : HoldsSlot(c)}

\* payload m shows this card
Carries(m, card) ==
    /\ PayloadRank(m) = <<48 + (card[1] \div 10), 48 + (card[1] % 10)>>
    /\ PayloadSuit(m) = card[2]

\* play_game_round is running on connection c, or has just returned
InRound(c) == player_hand[c] # <<>>

\* the player's hand went over 21 by a hit
Busted(c) == Len(player_hand[c]) > 2 /\ calculate_hand_sum(player_hand[c]) > 21

\* play_game_round has returned from its last lines (184-193)
ReturnedFromResolve(c) == InRound(c) /\ pc[c] = "round_loop" /\ ~Busted(c)

\* the positions in sent of the payloads with rank field "00"
OutcomePayloads(c) == {i \in 1..Len(sent[c]) : PayloadRank(sent[c][i]) = NO_RANK}

(***************************************************************************)
(* C1: under every interleaving of the connection threads, the connections *)
(* that have passed admission and not yet released their slot number at    *)
(* most N = max(1, min(max_connections, 20)).                              *)
(***************************************************************************)
C1_AtMostNAdmitted == Cardinality(Holders) <= Capacity

\* all N slots are held while another connection is at the acquire
C1_Witness ==
    /\ Cardinality(Holders) = Capacity
    /\ \E c \in Conns : pc[c] = "manage"

(***************************************************************************)
(* C2: a connection whose acquire runs while all N slots are held is       *)
(* closed with nothing sent to it and nothing read from it, and the slot   *)
(* count stays as it is; a connection whose acquire runs while fewer than  *)
(* N slots are held is admitted.  (A connection arrives at admission when  *)
(* its thread executes line 122.)                                          *)
(***************************************************************************)
C2_RejectedUntouched ==
    \A c \in Conns : pc[c] = "rejected" =>
        /\ sent[c] = <<>>
        /\ data[c] = Unset
        /\ round_data[c] = Unset
        /\ round_no[c] = 0

C2_AdmissionStep ==
    \A c \in Conns : (pc[c] = "manage" /\ pc'[c] # "manage") =>
        IF Cardinality(Holders) = Capacity
        THEN /\ pc'[c] = "rejected"
             /\ connection_semaphore' = connection_semaphore
             /\ sent'[c] = <<>> /\ data'[c] = Unset
        ELSE /\ pc'[c] = "recv_request"
             /\ connection_semaphore' = connection_semaphore - 1

C2_SilentRejection == [](C2_RejectedUntouched) /\ [][C2_AdmissionStep]_vars

\* a connection has been rejected while every slot is held
C2_Witness ==
    \E c \in Conns : pc[c] = "rejected" /\ Cardinality(Holders) = Capacity

(***************************************************************************)
(* C3: free slots + sessions that hold a slot = N in every state, so every *)
(* admitted session gives its slot back exactly once on whichever path it  *)
(* ends, a rejected connection gives none back, and all N slots are free   *)
(* when no session is in progress.                                         *)
(***************************************************************************)
C3_SlotsConserved ==
    /\ connection_semaphore + Cardinality(Holders) = Capacity
    /\ (Holders = {} => connection_semaphore = Capacity)

\* a session has ended and released, another connection was rejected meanwhile
C3_Witness ==
    /\ \E c \in Conns : pc[c] = "closed"
    /\ \E c \in Conns : pc[c] = "rejected"
    /\ connection_semaphore = Capacity

(***************************************************************************)
(* C4: when the first read of an admitted connection is shorter than 38    *)
(* bytes, or has another magic cookie, or the cookie and another type, the *)
(* server sends nothing, starts no round and closes the socket.            *)
(***************************************************************************)
MalformedRequest(d) ==
    /\ d # Unset
    /\ \/ Len(d) < 38
       \/ SubSeq(d, 1, 4) # <<171, 205, 220, 186>>
       \/ d[5] # 3

C4_MalformedRequestClosed ==
    \A c \in Conns : MalformedRequest(data[c]) =>
        /\ pc[c] \in {"close_sock", "release"}
        /\ round_no[c] = 0
        /\ sent[c] = <<>>
        /\ ~InRound(c)

\* a request of the wrong type has been read and the socket is closed
C4_Witness ==
    \E c \in Conns : data[c] = BadTypeRequest /\ pc[c] = "release"

(***************************************************************************)
(* C5: a round that returns from its last lines (the player did not bust)  *)
(* has sent exactly one payload with rank field "00"; its result is TIE,   *)
(* LOSS or WIN, its suit 0, and it is the last payload of the round.       *)
(***************************************************************************)
C5_ExactlyOneOutcome ==
    \A c \in Conns : ReturnedFromResolve(c) =>
        /\ Cardinality(OutcomePayloads(c)) = 1
        /\ Len(sent[c]) \in OutcomePayloads(c)
        /\ PayloadResult(Last(sent[c])) \in {RESULT_TIE, RESULT_LOSS, RESULT_WIN}
        /\ PayloadSuit(Last(sent[c])) = 0

(***************************************************************************)
(* C6: the outcome payloads of a round that returns from its last lines    *)
(* carry WIN if d > 21, else WIN if p > d, else LOSS if d > p, else TIE,   *)
(* for the final totals p of the player and d of the dealer.               *)
(***************************************************************************)
OutcomeRule(p, d) ==
    IF d > 21 THEN 3
    ELSE IF p > d THEN 3
    ELSE IF d > p THEN 2
    ELSE 1

C6_OutcomeFollowsRule ==
    \A c \in Conns : ReturnedFromResolve(c) =>
        /\ OutcomePayloads(c) # {}
        /\ \A i \in OutcomePayloads(c) :
              PayloadResult(sent[c][i]) =
                 OutcomeRule(calculate_hand_sum(player_hand[c]),
                             calculate_hand_sum(dealer_hand[c]))

(***************************************************************************)
(* C7: the payloads of a round start with the player's first card, the     *)
(* player's second card and the dealer's first card, each IN_PROGRESS, in  *)
(* that order; the server reads nothing from the client before it has sent *)
(* the three; the dealer's second card is in no payload sent before the    *)
(* player's turn has ended.                                                *)
(***************************************************************************)
\* the thread is in play_game_round at or before the end of the player's loop
InPlayerTurnOrBefore(c) ==
    pc[c] \in {"send_p1", "send_p2", "send_d1", "player_turn", "send_hit", "send_bust"}

C7_DealThenPlayerTurn ==
    \A c \in Conns : InRound(c) =>
        /\ Len(sent[c]) >= 1 =>
              sent[c][1] = pack_server_payload(0, player_hand[c][1][1], player_hand[c][1][2])
        /\ Len(sent[c]) >= 2 =>
              sent[c][2] = pack_server_payload(0, player_hand[c][2][1], player_hand[c][2][2])
        /\ Len(sent[c]) >= 3 =>
              sent[c][3] = pack_server_payload(0, dealer_hand[c][1][1], dealer_hand[c][1][2])
        /\ pc[c] = "send_p1" => Len(sent[c]) = 0
        /\ pc[c] = "send_p2" => Len(sent[c]) = 1
        /\ pc[c] = "send_d1" => Len(sent[c]) = 2
        /\ pc[c] \notin {"send_p1", "send_p2", "send_d1"} => Len(sent[c]) >= 3
        /\ Len(sent[c]) < 3 => round_data[c] = Unset /\ Len(player_hand[c]) = 2
        /\ InPlayerTurnOrBefore(c) =>
              \A i \in 1..Len(sent[c]) : ~Carries(sent[c][i], dealer_hand[c][2])

\* the second round of a session has dealt and waits for the first decision
C7_Witness ==
    \E c \in Conns :
        /\ round_no[c] = 2
        /\ pc[c] = "player_turn"
        /\ Len(sent[c]) = 3
        /\ calculate_hand_sum(player_hand[c]) < 21

(***************************************************************************)
(* C8: when a hit takes the player's total over 21, the card drawn is sent *)
(* once, with result LOSS, as the last payload of the round; no hole card, *)
(* no dealer card and no rank-"00" payload is sent, and the dealer's hand  *)
(* stays the two cards dealt.                                              *)
(***************************************************************************)
C8_BustEndsRound ==
    \A c \in Conns : Busted(c) =>
        LET new_card == Last(player_hand[c])
            shown == {i \in 1..Len(sent[c]) : Carries(sent[c][i], new_card)}
        IN  /\ pc[c] \in {"send_bust", "round_loop"}
            /\ Len(dealer_hand[c]) = 2
            /\ \A i \in 1..Len(sent[c]) :
                  /\ ~Carries(sent[c][i], dealer_hand[c][2])
                  /\ PayloadRank(sent[c][i]) # NO_RANK
                  /\ i < Len(sent[c]) => PayloadResult(sent[c][i]) = RESULT_IN_PROGRESS
            /\ pc[c] = "send_bust" => shown = {}
            /\ pc[c] = "round_loop" =>
                  /\ shown = {Len(sent[c])}
                  /\ PayloadResult(Last(sent[c])) = RESULT_LOSS
                  /\ Len(sent[c]) = Len(player_hand[c]) + 1

\* a round has ended on a bust after at least one hit that did not bust
C8_Witness ==
    \E c \in Conns : Busted(c) /\ pc[c] = "round_loop" /\ Len(player_hand[c]) >= 4

(***************************************************************************)
(* C9: in the dealer's turn the hole card is sent first, IN_PROGRESS; the  *)
(* dealer draws a card only at a total below 17 and each card drawn is     *)
(* sent IN_PROGRESS before the next draw; the last lines of the round are  *)
(* reached only with a dealer total of at least 17.                        *)
(***************************************************************************)
\* the thread is in the dealer's part of play_game_round, or has returned from it
InDealerTurnOrAfter(c) ==
    \/ pc[c] \in {"dealer_turn", "send_dealer_card", "resolve", "send_tie_win"}
    \/ ReturnedFromResolve(c)

C9_DealerStandsOn17 ==
    \A c \in Conns : InRound(c) =>
        LET before == Len(player_hand[c]) + 1
            drawn  == Len(dealer_hand[c]) - 2
        IN  /\ \A k \in 3..Len(dealer_hand[c]) :
                  calculate_hand_sum(SubSeq(dealer_hand[c], 1, k - 1)) < 17
            /\ drawn > 0 => InDealerTurnOrAfter(c)
            /\ (pc[c] \in {"resolve", "send_tie_win"} \/ ReturnedFromResolve(c)) =>
                  calculate_hand_sum(dealer_hand[c]) >= 17
            /\ InDealerTurnOrAfter(c) =>
                  /\ Len(sent[c]) > before
                  /\ sent[c][before + 1] =
                        pack_server_payload(0, dealer_hand[c][2][1], dealer_hand[c][2][2])
                  /\ \A j \in 1..drawn :
                        Len(sent[c]) >= before + 1 + j =>
                           sent[c][before + 1 + j] =
                              pack_server_payload(0, dealer_hand[c][2 + j][1],
                                                  dealer_hand[c][2 + j][2])
                  /\ pc[c] = "send_dealer_card" => Len(sent[c]) = before + drawn
                  /\ pc[c] \in {"dealer_turn", "resolve"} =>
                        Len(sent[c]) = before + 1 + drawn

\* the dealer has drawn twice and stands
C9_Witness ==
    \E c \in Conns : pc[c] = "resolve" /\ Len(dealer_hand[c]) >= 4

(***************************************************************************)
(* C10: in the player's turn a 10-byte decision with the cookie and type   *)
(* 0x4 whose token is neither "Stand" nor "Hittt" changes nothing: no card *)
(* is drawn, hands and deck stay, nothing is sent, and the thread is back  *)
(* at the read of the next decision.                                       *)
(***************************************************************************)
C10_ReadsOtherToken(c) ==
    /\ pc[c] = "player_turn"
    /\ round_data'[c] # round_data[c]
    /\ round_data'[c] \in WellFormedOtherDecisions

C10_OtherTokenStep ==
    \A c \in Conns : C10_ReadsOtherToken(c) =>
        /\ pc'[c] = "player_turn"
        /\ player_hand'[c] = player_hand[c]
        /\ dealer_hand'[c] = dealer_hand[c]
        /\ deck'[c] = deck[c]
        /\ sent'[c] = sent[c]
        /\ calculate_hand_sum(player_hand'[c]) < 21

C10_OtherTokenIgnored == [][C10_OtherTokenStep]_vars

\* "Doubl" was read after a hit, and the server waits for the next decision
C10_Witness ==
    \E c \in Conns :
        /\ round_data[c] = pack_client_payload(<<68, 111, 117, 98, 108>>)
        /\ pc[c] = "player_turn"
        /\ Len(player_hand[c]) = 3

(***************************************************************************)
(* C11: when a read of the player's turn returns end-of-stream (b'') or a  *)
(* buffer too short to decode, nothing more is sent in that round: no hole *)
(* card, no dealer card, no outcome payload; the payloads sent stay the    *)
(* player's cards and the dealer's first card, and the dealer draws none.  *)
(***************************************************************************)
C11_Undecodable(d) == d = <<>> \/ (d # Unset /\ Len(d) < 10)

C11_RoundAbortedSilently ==
    \A c \in Conns : (InRound(c) /\ C11_Undecodable(round_data[c])) =>
        /\ Len(sent[c]) = Len(player_hand[c]) + 1
        /\ Len(dealer_hand[c]) = 2
        /\ pc[c] \notin {"dealer_turn", "send_dealer_card", "resolve", "send_tie_win"}

(***************************************************************************)
(* C12: a session with a valid Request declaring R rounds starts its       *)
(* rounds one at a time, round k+1 only from handle_client's loop after    *)
(* round k has returned and with nothing of round k+1 sent before; it      *)
(* never starts more than R rounds, and it leaves the loop for the close   *)
(* of the socket only when R rounds have been played.                      *)
(***************************************************************************)
\* the rounds byte of the Request that connection c has read
C12_Declared(c) == data[c][6]

C12_InSession(c) ==
    pc[c] \notin {"idle", "manage", "rejected", "recv_request", "close_sock",
                  "release", "closed"}

C12_RoundsBounded ==
    \A c \in Conns : C12_InSession(c) =>
        /\ rounds[c] = C12_Declared(c)
        /\ round_no[c] <= C12_Declared(c)
        /\ pc[c] # "round_loop" => round_no[c] >= 1 /\ InRound(c)
        /\ sent[c] # <<>> => InRound(c)

C12_RoundStep ==
    \A c \in Conns :
        /\ (pc[c] # "send_p1" /\ pc'[c] = "send_p1") =>
              /\ pc[c] = "round_loop"
              /\ round_no[c] < C12_Declared(c)
              /\ round_no'[c] = round_no[c] + 1
              /\ round_no[c] > 0 => InRound(c) /\ sent[c] # <<>>
              /\ sent'[c] = <<>>
        /\ (pc[c] = "round_loop" /\ pc'[c] # "round_loop") =>
              \/ pc'[c] = "send_p1"
              \/ pc'[c] = "close_sock" /\ round_no[c] = C12_Declared(c)
        /\ (C12_InSession(c) /\ pc[c] # "round_loop") => round_no'[c] = round_no[c]

C12_RoundsSequential == [](C12_RoundsBounded) /\ [][C12_RoundStep]_vars

\* the second of two declared rounds has returned and the client is still there
C12_Witness ==
    \E c \in Conns :
        /\ pc[c] = "round_loop" /\ InRound(c)
        /\ round_no[c] = 2 /\ C12_Declared(c) = 2
        /\ ~peer_eof[c]

(***************************************************************************)
(* C13: a 10-byte decision whose magic cookie is not 0xabcddcba, or whose  *)
(* type byte is not 0x4, never makes the server draw a card for the        *)
(* player: the thread is never at the sends of lines 174 and 176 with such *)
(* a buffer as the decision it acted on.                                   *)
(***************************************************************************)
C13_BadHeader(d) ==
    /\ Len(d) = 10
    /\ SubSeq(d, 1, 4) # <<171, 205, 220, 186>> \/ d[5] # 4

C13_BadHeaderNeverHits ==
    \A c \in Conns : C13_BadHeader(round_data[c]) =>
        pc[c] \notin {"send_hit", "send_bust"}

(***************************************************************************)
(* C14: a step in which one session ends on an error (a malformed or empty *)
(* first read, a read or send that raises, an exception inside a round)    *)
(* leaves every other connection's thread position, request, rounds,       *)
(* hands, deck, last decision and sent payloads as they are, and leaves    *)
(* the slot count alone until the release, which adds exactly one.  A slot *)
(* is free whenever fewer than N sessions hold one, so the next connection *)
(* is admitted and served.                                                 *)
(***************************************************************************)
C14_OthersUntouched(c) ==
    \A o \in Conns \ {c} :
        /\ pc'[o] = pc[o] /\ data'[o] = data[o]
        /\ rounds'[o] = rounds[o] /\ round_no'[o] = round_no[o]
        /\ deck'[o] = deck[o] /\ player_hand'[o] = player_hand[o]
        /\ dealer_hand'[o] = dealer_hand[o] /\ round_data'[o] = round_data[o]
        /\ sent'[o] = sent[o]

C14_ErrorStep ==
    \A c \in Conns :
        /\ (pc[c] # "close_sock" /\ pc'[c] = "close_sock") =>
              /\ C14_OthersUntouched(c)
              /\ connection_semaphore' = connection_semaphore
        /\ (pc[c] = "close_sock" /\ pc'[c] # "close_sock") =>
              /\ C14_OthersUntouched(c)
              /\ connection_semaphore' = connection_semaphore
        /\ (pc[c] = "release" /\ pc'[c] # "release") =>
              /\ C14_OthersUntouched(c)
              /\ connection_semaphore' = connection_semaphore + 1

C14_StillServing ==
    /\ Cardinality(Holders) < Capacity => AcquireSucceeds(connection_semaphore)
    /\ \A c \in Conns : pc[c] \in {"closed", "rejected"} => ENABLED Accept(c)

C14_ErrorsAreLocal == [](C14_StillServing) /\ [][C14_ErrorStep]_vars

\* one session is being closed after a request with a bad cookie while another
\* session is in the player's turn of its round
C14_Witness ==
    \E c, o \in Conns :
        /\ c # o
        /\ pc[c] = "release" /\ data[c] = BadCookieRequest
        /\ pc[o] = "player_turn" /\ Len(sent[o]) = 3 /\ Len(player_hand[o]) = 2

(***************************************************************************)
(* C15: with the threads scheduled fairly, broadcast_offers executes the   *)
(* sendto of line 116 again and again for ever, however many sessions are  *)
(* in progress and also while every slot is held; a sendto that raises is  *)
(* followed by another sendto; the thread never stops; every datagram      *)
(* transmitted is the Offer packed with the port the listening socket was  *)
(* given at startup, which never changes.                                  *)
(***************************************************************************)
C15_OfferCarriesPort ==
    /\ offer_pc # "stopped"
    /\ last_offer # <<>> =>
          /\ Len(last_offer) = 39
          /\ SubSeq(last_offer, 1, 5) = <<171, 205, 220, 186, 2>>
          /\ last_offer[6] * 256 + last_offer[7] = tcp_port

C15_PortFixed == tcp_port' = tcp_port

C15_OffersForever ==
    /\ [](C15_OfferCarriesPort)
    /\ [][C15_PortFixed]_vars
    /\ []<><<BroadcastSend>>_offer_vars
    /\ (offer_pc = "except") ~> (offer_pc = "sendto")

\* a sendto has failed after an Offer went out, while the only slot is held
C15_Witness ==
    /\ offer_pc = "except"
    /\ last_offer # <<>>
    /\ Cardinality(Holders) = Capacity
    /\ \E c \in Conns : pc[c] = "rejected"

(***************************************************************************)
(* C16: for every hand of cards with ranks in 1..13, calculate_hand_sum    *)
(* returns the number of cards of each rank times the rank's value, summed *)
(* over the ranks: 2..10 count the rank, 11..13 count 10, and 1 counts 11  *)
(* also when the total passes 21.  The result is the same for the hand in  *)
(* any other order.                                                        *)
(***************************************************************************)
C16_Count(hand, rank) == Cardinality({i \in 1..Len(hand) : hand[i][1] = rank})

C16_Total(hand) ==
    11 * C16_Count(hand, 1)
    + 2 * C16_Count(hand, 2) + 3 * C16_Count(hand, 3) + 4 * C16_Count(hand, 4)
    + 5 * C16_Count(hand, 5) + 6 * C16_Count(hand, 6) + 7 * C16_Count(hand, 7)
    + 8 * C16_Count(hand, 8) + 9 * C16_Count(hand, 9) + 10 * C16_Count(hand, 10)
    + 10 * (C16_Count(hand, 11) + C16_Count(hand, 12) + C16_Count(hand, 13))

\* the hand with the cards at positions i and i + 1 exchanged
C16_Swap(hand, i) ==
    [k \in 1..Len(hand) |->
        IF k = i THEN hand[i + 1] ELSE IF k = i + 1 THEN hand[i] ELSE hand[k]]

C16_HandSumIsSumOfValues ==
    (call = "calculate_hand_sum" /\ ret # <<>>) =>
        /\ ret[1] = C16_Total(arg)
        /\ \A i \in 1..(Len(arg) - 1) : calculate_hand_sum(C16_Swap(arg, i)) = ret[1]
        /\ calculate_hand_sum(Reverse(arg)) = ret[1]
        /\ arg = << <<10, 0>>, <<11, 1>>, <<12, 2>>, <<13, 3>> >> => ret[1] = 40
        /\ arg = << <<1, 0>>, <<5, 2>> >> => ret[1] = 16

\* Ace, 5 and King have been summed to 26: the Ace still counts 11 above 21
C16_Witness ==
    /\ call = "calculate_hand_sum"
    /\ arg = << <<1, 0>>, <<5, 2>>, <<13, 3>> >>
    /\ ret = <<26>>

(***************************************************************************)
(* C17: in every state of a round, of the first round and of every later   *)
(* one, the player's hand, the dealer's hand and the rest of the deck are  *)
(* pairwise disjoint, hold no card twice and together are the 52 pairs     *)
(* (rank, suit) with rank in 1..13 and suit in 0..3; no two payloads of    *)
(* the round show the same card.                                           *)
(***************************************************************************)
C17_AllCards == {<<r, s>> : r \in 1..13, s \in 0..3}

\* the positions in sent of the payloads that show a card
C17_CardPayloads(c) == {i \in 1..Len(sent[c]) : PayloadRank(sent[c][i]) # NO_RANK}

C17_CardsPartitioned ==
    \A c \in Conns : InRound(c) =>
        /\ Len(player_hand[c]) + Len(dealer_hand[c]) + Len(deck[c]) = 52
        /\ Range(player_hand[c]) \cup Range(dealer_hand[c]) \cup Range(deck[c])
              = C17_AllCards
        /\ Range(player_hand[c]) \cap Range(dealer_hand[c]) = {}
        /\ Range(player_hand[c]) \cap Range(deck[c]) = {}
        /\ Range(dealer_hand[c]) \cap Range(deck[c]) = {}
        /\ \A i, j \in C17_CardPayloads(c) :
              i # j => <<PayloadRank(sent[c][i]), PayloadSuit(sent[c][i])>>
                          # <<PayloadRank(sent[c][j]), PayloadSuit(sent[c][j])>>

\* the second round of a session has ended after a hit and a dealer draw
C17_Witness ==
    \E c \in Conns :
        /\ round_no[c] = 2 /\ pc[c] = "round_loop"
        /\ Len(player_hand[c]) >= 3 /\ Len(dealer_hand[c]) >= 3
        /\ Len(deck[c]) <= 46

(***************************************************************************)
(* C18: unpack_request(pack_request(name, rounds)) is the magic cookie,    *)
(* type 0x3, the same rounds, and a name field that decodes, its zero      *)
(* padding stripped, to the name when the name's UTF-8 bytes fit the 32    *)
(* bytes of the field and to the name's first 32 bytes when they do not;   *)
(* unpack_client_payload(pack_client_payload(d)) gives the token d for d   *)
(* "Hittt" or "Stand".                                                     *)
(***************************************************************************)
C18_RoundTrip ==
    /\ (call = "pack_request" /\ ret # <<>>) =>
          LET name_bytes == EncodeUtf8(arg[1])
          IN  /\ ret[1][1] = <<171, 205, 220, 186>>
              /\ ret[1][2] = 3
              /\ ret[1][3] = arg[2]
              /\ IF Len(name_bytes) <= 32 THEN ret[2] = arg[1]
                 ELSE EncodeUtf8(ret[2]) = SubSeq(name_bytes, 1, 32)
    /\ (call = "pack_client_payload" /\ ret # <<>>) =>
          /\ ret[1][1] = <<171, 205, 220, 186>>
          /\ ret[1][2] = 4
          /\ ret[1][3] = arg

(***************************************************************************)
(* C19: a well-formed Request is served however the stream delivers it: a  *)
(* first read that starts with the 38 bytes of a valid Request declaring   *)
(* at least one round, with bytes of the next message behind them, is      *)
(* followed by a round, and the socket is not closed with no round played. *)
(***************************************************************************)
C19_StartsWithRequest(d) ==
    /\ d # Unset
    /\ Len(d) >= 38
    /\ SubSeq(d, 1, 4) = <<171, 205, 220, 186>>
    /\ d[5] = 3
    /\ d[6] >= 1

C19_FramedBySize ==
    \A c \in Conns :
        (C19_StartsWithRequest(data[c]) /\ pc[c] \in {"close_sock", "release"}) =>
            round_no[c] >= 1

(***************************************************************************)
(* C20: the server reads a decision only at a player total below 21.  At a *)
(* total of 21 or more after the deal, or of exactly 21 after a hit, the   *)
(* thread goes from the loop test to the send of the hole card with no     *)
(* read, no card drawn and nothing sent in between; below 21 it gets there *)
(* only by a read that returned "Stand", nothing, or too few bytes.        *)
(***************************************************************************)
C20_Stops(d) == d = <<>> \/ Len(d) < 10 \/ unpack_client_payload(d)[3] = STAND

C20_LoopStep ==
    \A c \in Conns : pc[c] = "player_turn" =>
        IF calculate_hand_sum(player_hand[c]) >= 21
        THEN /\ pc'[c] \in {"player_turn", "send_hole"}
             /\ round_data'[c] = round_data[c]
             /\ player_hand'[c] = player_hand[c]
             /\ deck'[c] = deck[c]
             /\ sent'[c] = sent[c]
        ELSE pc'[c] = "send_hole" =>
                /\ round_data'[c] # Unset
                /\ C20_Stops(round_data'[c])

C20_NoReadAt21 ==
    \A c \in Conns :
        /\ pc[c] \in {"send_hit", "send_bust"} =>
              calculate_hand_sum(SubSeq(player_hand[c], 1, Len(player_hand[c]) - 1)) < 21
        /\ (InRound(c) /\ round_data[c] # Unset) =>
              calculate_hand_sum(SubSeq(player_hand[c], 1, 2)) < 21

C20_AskedOnlyBelow21 == [](C20_NoReadAt21) /\ [][C20_LoopStep]_vars

\* a hit has taken the player to exactly 21 and the hole card is next
C20_Witness ==
    \E c \in Conns :
        /\ pc[c] = "send_hole"
        /\ Len(player_hand[c]) = 3
        /\ calculate_hand_sum(player_hand[c]) = 21
        /\ round_data[c] = pack_client_payload(HITTT)

(***************************************************************************)
(* C21: within a round the deck is never empty when a card is drawn.       *)
(* Every card counts at least 2, a hand that is still drawn for was below  *)
(* 21 (the player's) or below 17 (the dealer's) before its last card, so   *)
(* the player holds at most 11 cards, the dealer at most 9, and at least   *)
(* 32 of the 52 cards are left at every draw.                              *)
(***************************************************************************)
C21_DrawsNext(c) ==
    \/ pc[c] = "player_turn" /\ PlayerAsked(player_hand[c])
    \/ pc[c] = "dealer_turn" /\ DealerDraws(dealer_hand[c])

C21_DeckNeverRunsOut ==
    \A c \in Conns : InRound(c) =>
        /\ C21_DrawsNext(c) => deck[c] # <<>>
        /\ 2 * Len(player_hand[c]) <= calculate_hand_sum(player_hand[c])
        /\ 2 * Len(dealer_hand[c]) <= calculate_hand_sum(dealer_hand[c])
        /\ Len(player_hand[c]) > 2 => calculate_hand_sum(Front(player_hand[c])) < TARGET
        /\ Len(dealer_hand[c]) > 2 => calculate_hand_sum(Front(dealer_hand[c])) < DEALER_STAND
        /\ Len(player_hand[c]) <= 11
        /\ Len(dealer_hand[c]) <= 9
        /\ Len(deck[c]) + Len(player_hand[c]) + Len(dealer_hand[c]) = NUM_RANKS * NUM_SUITS

\* the low cards came first: twelve cards are gone and the dealer draws again
C21_Witness ==
    \E c \in Conns :
        /\ pc[c] = "dealer_turn"
        /\ DealerDraws(dealer_hand[c])
        /\ Len(deck[c]) <= 40

(***************************************************************************)
(* C22: a tie counts as a win for the player.  Every outcome payload of a  *)
(* round that returns from its last lines carries WIN if the dealer's      *)
(* total is above 21 or the player's total is at least the dealer's, and   *)
(* LOSS otherwise.                                                         *)
(***************************************************************************)
\* test_17_tie_is_win_logic: the result the test computes from the totals
TieIsWinResult(p_tot, d_tot) ==
    IF d_tot > 21 \/ p_tot >= d_tot THEN RESULT_WIN ELSE RESULT_LOSS

C22_TieCountsAsWin ==
    \A c \in Conns : ReturnedFromResolve(c) =>
        /\ OutcomePayloads(c) # {}
        /\ \A i \in OutcomePayloads(c) :
              PayloadResult(sent[c][i]) =
                 TieIsWinResult(calculate_hand_sum(player_hand[c]),
                                calculate_hand_sum(dealer_hand[c]))

(***************************************************************************)
(* C23: a player whose own total is above 21 is never told WIN or TIE: in  *)
(* a round where the player's total exceeds 21, every payload whose result *)
(* is not IN_PROGRESS carries LOSS.                                        *)
(***************************************************************************)
C23_NoWinAbove21 ==
    \A c \in Conns :
        (InRound(c) /\ calculate_hand_sum(player_hand[c]) > TARGET) =>
            \A i \in 1..Len(sent[c]) :
                PayloadResult(sent[c][i]) \in {RESULT_IN_PROGRESS, RESULT_LOSS}

(***************************************************************************)
(* C27: every payload the server sends has one of three shapes: a card     *)
(* (rank 1..13, suit 0..3) with result IN_PROGRESS; the card that busts    *)
(* the player, with result LOSS, as the round's last payload; or rank      *)
(* "00" and suit 0 with result TIE, LOSS or WIN.  WIN and TIE never come   *)
(* with a card, IN_PROGRESS never with rank "00".                          *)
(***************************************************************************)
C27_RealCard(m) == \E card \in Range(UnshuffledDeck) : Carries(m, card)

C27_CardShape(m) == C27_RealCard(m) /\ PayloadResult(m) = RESULT_IN_PROGRESS

C27_BustShape(c, i) ==
    /\ PayloadResult(sent[c][i]) = RESULT_LOSS
    /\ i = Len(sent[c])
    /\ Busted(c)
    /\ Carries(sent[c][i], Last(player_hand[c]))

C27_OutcomeShape(m) ==
    /\ PayloadRank(m) = NO_RANK
    /\ PayloadSuit(m) = 0
    /\ PayloadResult(m) \in {RESULT_TIE, RESULT_LOSS, RESULT_WIN}

C27_ThreeShapes ==
    \A c \in Conns : \A i \in 1..Len(sent[c]) :
        /\ SubSeq(sent[c][i], 1, 5) = MAGIC_COOKIE \o <<MESSAGE_TYPE_PAYLOAD>>
        /\ Len(sent[c][i]) = 9
        /\ \/ C27_CardShape(sent[c][i])
           \/ C27_BustShape(c, i)
           \/ C27_OutcomeShape(sent[c][i])
        /\ PayloadResult(sent[c][i]) \in {RESULT_WIN, RESULT_TIE} => ~C27_RealCard(sent[c][i])
        /\ PayloadResult(sent[c][i]) = RESULT_IN_PROGRESS => PayloadRank(sent[c][i]) # NO_RANK

\* a round has sent cards in progress and then the card that busts the player
C27_Witness ==
    \E c \in Conns :
        /\ Len(sent[c]) >= 4
        /\ C27_BustShape(c, Len(sent[c]))
        /\ \A i \in 1..(Len(sent[c]) - 1) : C27_CardShape(sent[c][i])

(***************************************************************************)
(* C26: under fair scheduling, and with clients that in every round        *)
(* eventually stand, bust, close or let the read time out, every round     *)
(* that starts returns or raises, every draw of the dealer raises the      *)
(* dealer's total, and every admitted session closes its socket and        *)
(* releases its slot.                                                      *)
(***************************************************************************)
C26_DrawStep ==
    \A c \in Conns :
        (pc[c] = "dealer_turn" /\ pc'[c] = "send_dealer_card") =>
            /\ calculate_hand_sum(dealer_hand'[c]) > calculate_hand_sum(dealer_hand[c])
            /\ Len(deck'[c]) < Len(deck[c])

C26_RoundEnds(c) == (pc[c] = "send_p1") ~> (pc[c] \in {"round_loop", "close_sock"})

C26_SessionEnds(c) ==
    /\ (pc[c] = "recv_request") ~> (pc[c] = "release")
    /\ (pc[c] = "release") ~> (pc[c] = "closed")

C26_EverySessionEnds ==
    /\ [][C26_DrawStep]_vars
    /\ \A c \in Conns : C26_RoundEnds(c) /\ C26_SessionEnds(c)

\* a session has played every round it asked for and closed its socket; the
\* release is next
C26_Witness ==
    \E c \in Conns :
        /\ pc[c] = "release"
        /\ rounds[c] = MaxRounds
        /\ round_no[c] = rounds[c]

(***************************************************************************)
(* C24: with client.py and server.py in one session, every decision is     *)
(* read by the server in the round in which the client sent it: whenever   *)
(* a read of the player's loop returns bytes of the client, they were all  *)
(* sent during the round that read belongs to.                             *)
(***************************************************************************)
C24_ReadStep ==
    (/\ pc[ClientConn] = "player_turn"
     /\ to_server # <<>>
     /\ to_server' = <<>>)
    => \A i \in 1..Len(to_server) : to_server[i][2] = round_no[ClientConn]

C24_DecisionsReadInTheirRound == [][C24_ReadStep]_vars

(***************************************************************************)
(* C25: with client.py and server.py in one session, the client never      *)
(* counts more finished rounds than play_game_round has returned from,     *)
(* and it declares all rounds completed and closes only after the server   *)
(* has sent the last message of the last round asked for.                  *)
(***************************************************************************)
\* the rounds play_game_round has returned from; after an exception the round
\* it left is counted too
C25_ServerFinished ==
    IF pc[ClientConn] \in {"round_loop", "close_sock", "release"} THEN round_no[ClientConn]
    ELSE IF round_no[ClientConn] > 0 THEN round_no[ClientConn] - 1
    ELSE 0

C25_AllCompleted == client_pc = "done" /\ rounds_finished = rounds_to_play

C25_ClientCountsServerRounds ==
    /\ (client_pc \notin {"off", "connect"} /\ pc[ClientConn] # "closed") =>
          rounds_finished <= C25_ServerFinished
    /\ C25_AllCompleted =>
          \/ pc[ClientConn] \in {"close_sock", "release", "closed"}
          \/ pc[ClientConn] = "round_loop" /\ round_no[ClientConn] = rounds_to_play

====
